---- MODULE Spec2Model ----
(***************************************************************************)
(* A model of two whitebox_tools kernels:                                  *)
(*   - CostPathway::run   (tools/gis_analysis/cost_pathway.rs): the flow   *)
(*     path accumulation scan over a destination and a backlink raster;    *)
(*   - LidarIdwInterpolation::run (tools/lidar_analysis/                   *)
(*     lidar_idw_interpolation.rs): binning, row-block dispatch, worker    *)
(*     threads, the mpsc channel and the collector loop.                   *)
(* Raster, LasFile and FixedRadiusSearch2D are collaborators whose code is *)
(* not part of the two files; they are modelled from their documented      *)
(* contract and marked so where they are defined.                          *)
(***************************************************************************)
EXTENDS Integers, Sequences, FiniteSets, TLC

VARIABLES
    \* ---- CostPathway::run ----
    destination,    \* the destination raster as loaded
    backlink,       \* the backlink raster as loaded
    output,         \* the accumulation raster (NoRaster until allocated)
    pcF,            \* position of CostPathway::run
    row, col,       \* the scan position (for row / for col)
    x, y,           \* the walk position
    flag,           \* the walk's stop flag
    moves,          \* ghost: moves made by the current walk (saturating)
    trail,          \* ghost: cells visited by the latest walk, in order
    saved,          \* what output.write() persisted (NoRaster until then)
    status,         \* the Result of CostPathway::run
    \* ---- LidarIdwInterpolation::run ----
    inputs,           \* the input files of the run, in the order of the batch loop
    k,                \* the batch loop's k
    written,          \* ghost: the file indices whose output was written
    input,            \* the LasFile: [header, points]
    interp_parameter, \* --parameter
    return_type,      \* --returns
    exclude_cls,      \* the classes of --exclude_cls
    min_z, max_z,     \* --minz, --maxz
    grid_res,         \* --resolution
    weight,           \* --weight
    search_radius,    \* --radius
    num_procs,        \* num_cpus::get()
    pcI,              \* position of LidarIdwInterpolation::run
    bin_i,            \* the binning loop's i
    frs,              \* the entries of the FixedRadiusSearch2D, in insertion order
    interp_vals,      \* the attribute array
    rows, columns,    \* the output grid's shape
    configs,          \* the RasterConfigs the output raster is created with
    grid,             \* the output raster's rows (`output`)
    starting_row, ending_row, id,   \* the dispatch loop
    workers,          \* the spawned threads
    chan,             \* the mpsc channel: messages sent and not received
    received,         \* the collector loop's row counter
    recv_log,         \* ghost: the row indices received, in arrival order
    persisted,        \* what output.write() wrote (NotWritten until then)
    idw_status        \* the outcome of LidarIdwInterpolation::run

flowVars == <<destination, backlink, output, pcF, row, col, x, y, flag,
              moves, trail, saved, status>>

idwInputs == <<input, interp_parameter, return_type, exclude_cls, min_z, max_z,
               grid_res, weight, search_radius, num_procs>>

binVars == <<bin_i, frs, interp_vals>>

gridVars == <<rows, columns, configs, grid>>

dispatchVars == <<starting_row, ending_row, id, workers>>

collectVars == <<chan, received, recv_log, persisted, idw_status>>

batchVars == <<inputs, k, written>>

idwVars == <<batchVars, idwInputs, pcI, binVars, gridVars, dispatchVars, collectVars>>

vars == <<flowVars, idwVars>>

Min(a, b) == IF a < b THEN a ELSE b

(***************************************************************************)
(* Bounds of the flow model.                                               *)
(***************************************************************************)
MaxFlowRows  == 2
MaxFlowCols  == 3
MaxFlowCells == 4
\* The side of the square grids of the direction model.
StepSide     == 3

\* Cell counts and the ghost move counter saturate here; no acyclic scan
\* over at most MaxFlowCells cells comes near it.
FlowCap == MaxFlowCells + 3

(***************************************************************************)
(* Raster (collaborator, modelled from its documented contract): a grid of *)
(* rows x columns cells with a nodata value.  A cell outside the grid      *)
(* reads as nodata and a write or increment outside the grid changes no    *)
(* cell.                                                                   *)
(***************************************************************************)
Cells(r, c) == (0 .. r - 1) \X (0 .. c - 1)

NoRaster == [rows |-> 0, columns |-> 0, nodata |-> 0, data |-> << >>]

InGrid(g, r, c) == r >= 0 /\ r < g.rows /\ c >= 0 /\ c < g.columns

RasterGet(g, r, c) == IF InGrid(g, r, c) THEN g.data[<<r, c>>] ELSE g.nodata

RasterSet(g, r, c, v) ==
    IF InGrid(g, r, c) THEN [g EXCEPT !.data[<<r, c>>] = v] ELSE g

\* Raster::increment treats nodata as the identity element.
RasterIncrement(g, r, c, v) ==
    IF InGrid(g, r, c)
    THEN IF g.data[<<r, c>>] = g.nodata
         THEN [g EXCEPT !.data[<<r, c>>] = v]
         ELSE [g EXCEPT !.data[<<r, c>>] = Min(@ + v, FlowCap)]
    ELSE g

\* Raster::initialize_using_file: the shape and nodata of the template,
\* every cell nodata.
InitializeUsingFile(g) ==
    [rows |-> g.rows, columns |-> g.columns, nodata |-> g.nodata,
     data |-> [cell \in Cells(g.rows, g.columns) |-> g.nodata]]

(***************************************************************************)
(* CostPathway::run                                                        *)
(***************************************************************************)
\* let dx = [ 1, 1, 1, 0, -1, -1, -1, 0 ]; (index 0..7)
dxShifted == [i \in 0 .. 7 |-> <<1, 1, 0, -1, -1, -1, 0, 1>>[i + 1]]

dx == [i \in 0 .. 7 |-> <<1, 1, 1, 0, -1, -1, -1, 0>>[i + 1]]
\* let dy = [ -1, 0, 1, 1, 1, 0, -1, -1 ];
dy == [i \in 0 .. 7 |-> <<-1, 0, 1, 1, 1, 0, -1, -1>>[i + 1]]

PntrLen == 129

\* A table whose unassigned entries hold 3 (S) instead of 0.
pntr_matchesDefaultSouth ==
    [v \in 0 .. PntrLen - 1 |->
        CASE v = 1   -> 0
          [] v = 2   -> 1
          [] v = 4   -> 2
          [] v = 8   -> 3
          [] v = 16  -> 4
          [] v = 32  -> 5
          [] v = 64  -> 6
          [] v = 128 -> 7
          [] OTHER   -> 3]

\* let mut pntr_matches: [usize; 129] = [0usize; 129]; then the eight
\* assignments.
pntr_matches ==
    [v \in 0 .. PntrLen - 1 |->
        CASE v = 1   -> 0
          [] v = 2   -> 1
          [] v = 4   -> 2
          [] v = 8   -> 3
          [] v = 16  -> 4
          [] v = 32  -> 5
          [] v = 64  -> 6
          [] v = 128 -> 7
          [] OTHER   -> 0]

\* if destination.configs.rows != backlink.configs.rows || ... columns ...
ShapeMismatchAnd ==
    destination.rows # backlink.rows /\ destination.columns # backlink.columns

ShapeMismatch ==
    destination.rows # backlink.rows \/ destination.columns # backlink.columns

\* let nodata = backlink.configs.nodata;
nodata == backlink.nodata

\* if destination[(row, col)] > 0.0 && backlink[(row, col)] != nodata
StartsWalkAnyBacklink(r, c) == RasterGet(destination, r, c) > 0

StartsWalk(r, c) ==
    RasterGet(destination, r, c) > 0 /\ RasterGet(backlink, r, c) # nodata

\* if dir != nodata && dir > 0.0 { move } else { flag = true }
HasDownslopeNever(dir) == FALSE

HasDownslopeAnySign(dir) == dir # nodata

HasDownslopeBounded(dir) ==
    dir # nodata /\ dir > 0 /\ moves < destination.rows * destination.columns

HasDownslope(dir) == dir # nodata /\ dir > 0

\* if output[(y, x)] == nodata { output[(y, x)] = 1.0 } else { increment }
VisitOverwrite(g, r, c) == RasterSet(g, r, c, 1)

VisitRawAdd(g, r, c) ==
    IF RasterGet(g, r, c) = nodata
    THEN RasterSet(g, r, c, 1)
    ELSE RasterSet(g, r, c, Min(RasterGet(g, r, c) + 1, FlowCap))

Visit(g, r, c) ==
    IF RasterGet(g, r, c) = nodata
    THEN RasterSet(g, r, c, 1)
    ELSE RasterIncrement(g, r, c, 1)

\* The scan position after cell (r, c): the next column, the next row, or
\* the end of both loops.
AfterCell(r, c) ==
    IF c + 1 < destination.columns THEN [row |-> r, col |-> c + 1, pc |-> "scan"]
    ELSE IF r + 1 < destination.rows THEN [row |-> r + 1, col |-> 0, pc |-> "scan"]
    ELSE [row |-> r + 1, col |-> 0, pc |-> "save"]

\* The shape check, then Raster::initialize_using_file.
CheckShape ==
    /\ pcF = "check"
    /\ IF ShapeMismatch
       THEN /\ pcF' = "error"
            /\ status' = "InvalidInput"
            /\ UNCHANGED output
       ELSE /\ pcF' = "scan"
            /\ output' = InitializeUsingFile(destination)
            /\ UNCHANGED status
    /\ UNCHANGED <<destination, backlink, row, col, x, y, flag, moves, trail, saved>>
    /\ UNCHANGED idwVars

\* One pass of the body of `for col in 0..columns`, up to the while loop.
ScanCell ==
    /\ pcF = "scan"
    /\ IF StartsWalk(row, col)
       THEN /\ flag' = FALSE
            /\ x' = col
            /\ y' = row
            /\ moves' = 0
            /\ trail' = << >>
            /\ pcF' = "walk"
            /\ UNCHANGED <<row, col>>
       ELSE /\ row' = AfterCell(row, col).row
            /\ col' = AfterCell(row, col).col
            /\ pcF' = AfterCell(row, col).pc
            /\ UNCHANGED <<flag, x, y, moves, trail>>
    /\ UNCHANGED <<destination, backlink, output, saved, status>>
    /\ UNCHANGED idwVars

\* A walk that marks each cell it has visited by clearing its backlink value.
WalkStepClearsBacklink ==
    /\ pcF = "walk"
    /\ ~flag
    /\ output' = Visit(output, y, x)
    /\ trail' = IF Len(trail) < FlowCap THEN Append(trail, <<y, x>>) ELSE trail
    /\ LET dir == RasterGet(backlink, y, x) IN
       IF HasDownslope(dir)
       THEN IF dir >= PntrLen
            THEN \* pntr_matches[dir as usize] is out of bounds: panic
                 /\ pcF' = "panic"
                 /\ status' = "panic"
                 /\ UNCHANGED <<x, y, flag, moves, row, col>>
            ELSE /\ x' = x + dx[pntr_matches[dir]]
                 /\ y' = y + dy[pntr_matches[dir]]
                 /\ moves' = Min(moves + 1, FlowCap)
                 /\ UNCHANGED <<flag, pcF, row, col, status>>
       ELSE /\ flag' = TRUE
            /\ row' = AfterCell(row, col).row
            /\ col' = AfterCell(row, col).col
            /\ pcF' = AfterCell(row, col).pc
            /\ UNCHANGED <<x, y, moves, status>>
    /\ backlink' = RasterSet(backlink, y, x, 0)
    /\ UNCHANGED <<destination, saved>>
    /\ UNCHANGED idwVars

\* One iteration of `while !flag`.
WalkStep ==
    /\ pcF = "walk"
    /\ ~flag
    /\ output' = Visit(output, y, x)
    /\ trail' = IF Len(trail) < FlowCap THEN Append(trail, <<y, x>>) ELSE trail
    /\ LET dir == RasterGet(backlink, y, x) IN
       IF HasDownslope(dir)
       THEN IF dir >= PntrLen
            THEN \* pntr_matches[dir as usize] is out of bounds: panic
                 /\ pcF' = "panic"
                 /\ status' = "panic"
                 /\ UNCHANGED <<x, y, flag, moves, row, col>>
            ELSE /\ x' = x + dx[pntr_matches[dir]]
                 /\ y' = y + dy[pntr_matches[dir]]
                 /\ moves' = Min(moves + 1, FlowCap)
                 /\ UNCHANGED <<flag, pcF, row, col, status>>
       ELSE /\ flag' = TRUE
            /\ row' = AfterCell(row, col).row
            /\ col' = AfterCell(row, col).col
            /\ pcF' = AfterCell(row, col).pc
            /\ UNCHANGED <<x, y, moves, status>>
    /\ UNCHANGED <<destination, backlink, saved>>
    /\ UNCHANGED idwVars

\* output.write() and Ok(())
Save ==
    /\ pcF = "save"
    /\ saved' = output
    /\ status' = "Ok"
    /\ pcF' = "done"
    /\ UNCHANGED <<destination, backlink, output, row, col, x, y, flag, moves, trail>>
    /\ UNCHANGED idwVars

NextFlow == CheckShape \/ ScanCell \/ WalkStep \/ Save

(***************************************************************************)
(* Bounds of the IDW model.                                                *)
(***************************************************************************)
MaxIdwRows == 3
MaxIdwCols == 2
MaxProcs   == 3
MaxPoints  == 2
MaxFiles   == 3
\* The dispatch loop is not followed past this many spawned threads.
MaxSpawn   == 10

(***************************************************************************)
(* Exact arithmetic for the f64 computations: a value is a fraction        *)
(* <<numerator, denominator>> in lowest terms with a positive denominator. *)
(* Lengths (x, y, resolution, radius) are counted in units of 0.5, so that *)
(* the cell-centre offset 0.5 is one unit and Scale units make 1.0.        *)
(***************************************************************************)
Scale == 2

Abs(a) == IF a < 0 THEN 0 - a ELSE a

RECURSIVE Gcd(_, _)
Gcd(a, b) == IF b = 0 THEN a ELSE Gcd(b, a % b)

Rat(n, d) ==
    LET g == Gcd(Abs(n), Abs(d))
        sgn == IF d < 0 THEN 0 - 1 ELSE 1
    IN <<(sgn * n) \div g, (sgn * d) \div g>>

RInt(n) == <<n, 1>>
RAdd(a, b) == Rat(a[1] * b[2] + b[1] * a[2], a[2] * b[2])
RDiv(a, b) == Rat(a[1] * b[2], a[2] * b[1])
RPos(a) == a[1] > 0

CeilDiv(a, b) == (a + b - 1) \div b

ISqrt(n) == CHOOSE q \in 0 .. n : q * q <= n /\ (q + 1) * (q + 1) > n

(***************************************************************************)
(* LidarIdwInterpolation::run: binning                                     *)
(***************************************************************************)
\* let nodata = -32768.0f64;
IdwNodata == -32768

\* f64::INFINITY, the default of max_z (min_z defaults to its negation)
ZInfinity == 1000000

NodataCell == RInt(IdwNodata)

NotWritten == << >>

\* RasterConfigs { ..Default::default() }, as far as the run sets it
NoConfigs ==
    [rows |-> 0, columns |-> 0, north |-> 0, south |-> 0, east |-> 0, west |-> 0,
     resolution_x |-> 0, resolution_y |-> 0, nodata |-> 0]

n_points == Len(input.points)

\* return_type.contains("last") / contains("first") / all
all_returns == return_type \notin {"last", "first"}
late_returns == return_type = "last"
early_returns == return_type # "last" /\ return_type = "first"

\* include_class_vals[c] = false for every c of --exclude_cls
include_class_vals(c) == c \notin exclude_cls

\* The nested ifs that guard frs.insert(p.x, p.y, i).
QualifiesNoClass(p) ==
    /\ ~p.withheld
    /\ (all_returns \/ (p.is_late_return /\ late_returns)
                    \/ (p.is_early_return /\ early_returns))
    /\ p.z >= min_z /\ p.z <= max_z

Qualifies(p) ==
    /\ ~p.withheld
    /\ (all_returns \/ (p.is_late_return /\ late_returns)
                    \/ (p.is_early_return /\ early_returns))
    /\ include_class_vals(p.classification)
    /\ p.z >= min_z /\ p.z <= max_z

\* match &interp_parameter as &str { ... }: what interp_vals.push receives.
Attribute(p) ==
    CASE interp_parameter \in {"elevation", "z"} -> p.z
      [] interp_parameter = "intensity"          -> p.intensity
      [] interp_parameter = "scan angle"         -> p.scan_angle
      [] interp_parameter = "classs"             -> p.classification
      [] OTHER                                   -> p.user_data

\* The locals of the loop body as their declarations leave them.
FreshLocals ==
    /\ bin_i' = 0 /\ frs' = << >> /\ interp_vals' = << >>
    /\ rows' = 0 /\ columns' = 0 /\ configs' = NoConfigs /\ grid' = << >>
    /\ starting_row' = 0 /\ ending_row' = 0 /\ id' = 0 /\ workers' = << >>
    /\ chan' = << >> /\ received' = 0 /\ recv_log' = << >>

\* A failed load that goes on with the next file instead of panicking.
LoadFileSkipUnreadable ==
    /\ pcI = "load"
    /\ k < Len(inputs)
    /\ IF inputs[k + 1].readable
       THEN /\ input' = inputs[k + 1].las
            /\ pcI' = "bin"
            /\ FreshLocals
            /\ UNCHANGED <<k, idw_status>>
       ELSE /\ IF k + 1 < Len(inputs)
               THEN k' = k + 1 /\ pcI' = "load" /\ UNCHANGED idw_status
               ELSE pcI' = "done" /\ idw_status' = "Ok" /\ UNCHANGED k
            /\ UNCHANGED <<input, binVars, gridVars, dispatchVars, chan, received,
                           recv_log>>
    /\ UNCHANGED <<inputs, written, interp_parameter, return_type, exclude_cls, min_z,
                   max_z, grid_res, weight, search_radius, num_procs, persisted>>
    /\ UNCHANGED flowVars

\* The head of the body of `for k in 0..inputs.len()`:
\* let input = match LasFile::new(&input_file, "r") { Ok(lf) => lf,
\* Err(err) => panic!(..) }, then the declarations of the locals.
LoadFile ==
    /\ pcI = "load"
    /\ k < Len(inputs)
    /\ IF inputs[k + 1].readable
       THEN /\ input' = inputs[k + 1].las
            /\ pcI' = "bin"
            /\ FreshLocals
            /\ UNCHANGED idw_status
       ELSE /\ pcI' = "panic"
            /\ idw_status' = "panic"
            /\ UNCHANGED <<input, binVars, gridVars, dispatchVars, chan, received,
                           recv_log>>
    /\ UNCHANGED <<batchVars, interp_parameter, return_type, exclude_cls, min_z,
                   max_z, grid_res, weight, search_radius, num_procs, persisted>>
    /\ UNCHANGED flowVars

\* One iteration of `for i in 0..n_points` of the selected match arm.
BinPointPushIfInserted ==
    /\ pcI = "bin"
    /\ bin_i < n_points
    /\ LET p == input.points[bin_i + 1] IN
          /\ frs' = IF Qualifies(p)
                    THEN Append(frs, [x |-> p.x, y |-> p.y, id |-> bin_i])
                    ELSE frs
          /\ interp_vals' = IF Qualifies(p)
                            THEN Append(interp_vals, Attribute(p))
                            ELSE interp_vals
    /\ bin_i' = bin_i + 1
    /\ UNCHANGED <<batchVars, idwInputs, pcI, gridVars, dispatchVars, collectVars>>
    /\ UNCHANGED flowVars

BinPoint ==
    /\ pcI = "bin"
    /\ bin_i < n_points
    /\ LET p == input.points[bin_i + 1] IN
          /\ frs' = IF Qualifies(p)
                    THEN Append(frs, [x |-> p.x, y |-> p.y, id |-> bin_i])
                    ELSE frs
          /\ interp_vals' = Append(interp_vals, Attribute(p))
    /\ bin_i' = bin_i + 1
    /\ UNCHANGED <<batchVars, idwInputs, pcI, gridVars, dispatchVars, collectVars>>
    /\ UNCHANGED flowVars

(***************************************************************************)
(* The output grid                                                         *)
(***************************************************************************)
west == input.header.min_x
north == input.header.max_y

\* rows = ((north - min_y) / grid_res).ceil(), columns likewise
GridRowsFloor == (north - input.header.min_y) \div grid_res

GridRows == CeilDiv(north - input.header.min_y, grid_res)
GridColumns == CeilDiv(input.header.max_x - west, grid_res)

\* let south = north - rows as f64 * grid_res; let east = west + columns ...
south == north - GridRows * grid_res
east == west + GridColumns * grid_res

\* configs.rows = rows as usize; ... configs.nodata = nodata;
GridConfigs ==
    [rows |-> GridRows, columns |-> GridColumns, north |-> north, south |-> south,
     east |-> east, west |-> west, resolution_x |-> grid_res,
     resolution_y |-> grid_res, nodata |-> IdwNodata]

\* Raster::initialize_using_config (collaborator): every cell nodata.
InitializeUsingConfig(r, c) ==
    [rw \in 0 .. r - 1 |-> [cl \in 1 .. c |-> NodataCell]]

\* The grid set up and the dispatch loop entered while points are still unread.
SetupGridBeforeBinningEnds ==
    /\ pcI = "bin"
    /\ rows' = GridRows
    /\ columns' = GridColumns
    /\ configs' = GridConfigs
    /\ grid' = InitializeUsingConfig(GridRows, GridColumns)
    /\ starting_row' = 0
    /\ ending_row' = 0
    /\ id' = 0
    /\ pcI' = "dispatch"
    /\ UNCHANGED <<batchVars, idwInputs, binVars, workers, collectVars>>
    /\ UNCHANGED flowVars

\* The end of binning: the grid's shape, the output raster, the channel and
\* the dispatch loop's variables.
SetupGrid ==
    /\ pcI = "bin"
    /\ bin_i = n_points
    /\ rows' = GridRows
    /\ columns' = GridColumns
    /\ configs' = GridConfigs
    /\ grid' = InitializeUsingConfig(GridRows, GridColumns)
    /\ starting_row' = 0
    /\ ending_row' = 0
    /\ id' = 0
    /\ pcI' = "dispatch"
    /\ UNCHANGED <<batchVars, idwInputs, binVars, workers, collectVars>>
    /\ UNCHANGED flowVars

(***************************************************************************)
(* The dispatch loop                                                       *)
(***************************************************************************)
\* let row_block_size = rows / num_procs;
row_block_size == rows \div num_procs

\* starting_row = id * row_block_size;
StartingRow(n) == n * row_block_size

\* ending_row = starting_row + row_block_size, clamped to rows
EndingRowAbsorb(start) ==
    IF id = num_procs - 1 THEN rows ELSE Min(start + row_block_size, rows)

EndingRow(start) ==
    IF start + row_block_size > rows THEN rows ELSE start + row_block_size

\* One iteration of `while ending_row < rows`: a thread is spawned for
\* starting_row..ending_row.
Spawn ==
    /\ pcI = "dispatch"
    /\ ending_row < rows
    /\ id < MaxSpawn
    /\ starting_row' = StartingRow(id)
    /\ ending_row' = EndingRow(StartingRow(id))
    /\ id' = id + 1
    /\ workers' = Append(workers,
                         [starting_row |-> StartingRow(id),
                          ending_row   |-> EndingRow(StartingRow(id)),
                          next         |-> StartingRow(id),
                          file         |-> k,
                          state        |-> "running"])
    /\ UNCHANGED <<batchVars, idwInputs, pcI, binVars, gridVars, collectVars>>
    /\ UNCHANGED flowVars

\* The main thread going from the dispatch loop straight to output.write().
StartCollectSkipsCollector ==
    /\ pcI = "dispatch"
    /\ ~(ending_row < rows)
    /\ pcI' = "write"
    /\ UNCHANGED <<batchVars, idwInputs, binVars, gridVars, dispatchVars, collectVars>>
    /\ UNCHANGED flowVars

\* The loop condition fails: the main thread goes on to `for row in 0..rows`.
StartCollect ==
    /\ pcI = "dispatch"
    /\ ~(ending_row < rows)
    /\ pcI' = IF rows > 0 THEN "collect" ELSE "write"
    /\ UNCHANGED <<batchVars, idwInputs, binVars, gridVars, dispatchVars, collectVars>>
    /\ UNCHANGED flowVars

(***************************************************************************)
(* A worker thread                                                         *)
(***************************************************************************)
\* x = west + col * grid_res + 0.5;  y = north - row * grid_res - 0.5;
CellX(c) == west + c * grid_res + Scale \div 2
CellY(r) == north - r * grid_res - Scale \div 2

Dist2(e, px, py) == (e.x - px) * (e.x - px) + (e.y - py) * (e.y - py)

\* FixedRadiusSearch2D::search (collaborator): the entries within the radius
\* with their distance, here as <<id, squared distance in units>>.
RECURSIVE SearchFrom(_, _, _)
SearchFrom(q, px, py) ==
    IF q > Len(frs) THEN << >>
    ELSE (IF Dist2(frs[q], px, py) <= search_radius * search_radius
          THEN << <<frs[q].id, Dist2(frs[q], px, py)>> >>
          ELSE << >>) \o SearchFrom(q + 1, px, py)

Search(px, py) == SearchFrom(1, px, py)

\* dist.powf(weight) for weight 1 and 2, as a fraction; the model's
\* geometries keep every distance a whole number of units.
DistPow(d2) ==
    IF weight = 2 THEN Rat(d2, Scale * Scale) ELSE Rat(ISqrt(d2), Scale)

\* for j in 0..ret.len() { ... }: accumulates val and sum_weights, or stops
\* at the first distance that is not > 0.
RECURSIVE IdwLoop(_, _, _, _)
IdwLoop(ret, j, val, sum_weights) ==
    IF j > Len(ret)
    THEN [exact |-> FALSE, zn |-> 0, val |-> val, sum_weights |-> sum_weights]
    ELSE LET zn == interp_vals[ret[j][1] + 1]
             d2 == ret[j][2]
         IN IF d2 > 0
            THEN IdwLoop(ret, j + 1,
                         RAdd(val, RDiv(RInt(zn), DistPow(d2))),
                         RAdd(sum_weights, RDiv(RInt(1), DistPow(d2))))
            ELSE [exact |-> TRUE, zn |-> zn, val |-> val, sum_weights |-> RInt(0)]

\* The loop without `sum_weights = 0.0` in its else branch.
RECURSIVE IdwLoopKeepWeights(_, _, _, _)
IdwLoopKeepWeights(ret, j, val, sum_weights) ==
    IF j > Len(ret)
    THEN [exact |-> FALSE, zn |-> 0, val |-> val, sum_weights |-> sum_weights]
    ELSE LET zn == interp_vals[ret[j][1] + 1]
             d2 == ret[j][2]
         IN IF d2 > 0
            THEN IdwLoopKeepWeights(ret, j + 1,
                         RAdd(val, RDiv(RInt(zn), DistPow(d2))),
                         RAdd(sum_weights, RDiv(RInt(1), DistPow(d2))))
            ELSE [exact |-> TRUE, zn |-> zn, val |-> val, sum_weights |-> sum_weights]

\* data[col] after the body of `for col in 0..columns`
CellValueKeepWeights(ret) ==
    IF Len(ret) > 0
    THEN LET r == IdwLoopKeepWeights(ret, 1, RInt(0), RInt(0)) IN
         IF RPos(r.sum_weights) THEN RDiv(r.val, r.sum_weights)
         ELSE IF r.exact THEN RInt(r.zn) ELSE NodataCell
    ELSE NodataCell

CellValueUnnormalised(ret) ==
    IF Len(ret) > 0
    THEN LET r == IdwLoop(ret, 1, RInt(0), RInt(0)) IN
         IF RPos(r.sum_weights) THEN r.val
         ELSE IF r.exact THEN RInt(r.zn) ELSE NodataCell
    ELSE NodataCell

CellValueNeedsTwo(ret) ==
    IF Len(ret) > 1
    THEN LET r == IdwLoop(ret, 1, RInt(0), RInt(0)) IN
         IF RPos(r.sum_weights) THEN RDiv(r.val, r.sum_weights)
         ELSE IF r.exact THEN RInt(r.zn) ELSE NodataCell
    ELSE NodataCell

CellValue(ret) ==
    IF Len(ret) > 0
    THEN LET r == IdwLoop(ret, 1, RInt(0), RInt(0)) IN
         IF RPos(r.sum_weights) THEN RDiv(r.val, r.sum_weights)
         ELSE IF r.exact THEN RInt(r.zn) ELSE NodataCell
    ELSE NodataCell

\* The buffer a worker sends for `row`.
ComputeRow(r) == [c \in 1 .. columns |-> CellValue(Search(CellX(c - 1), CellY(r)))]

\* A worker that stores its row in the output grid itself before sending.
WorkerSendWritesGrid(w) ==
    /\ pcI \in {"dispatch", "collect"}
    /\ workers[w].state = "running"
    /\ workers[w].next < workers[w].ending_row
    /\ chan' = Append(chan, <<workers[w].next, ComputeRow(workers[w].next)>>)
    /\ grid' = [grid EXCEPT ![workers[w].next] = ComputeRow(workers[w].next)]
    /\ workers' = [workers EXCEPT ![w].next = @ + 1]
    /\ UNCHANGED <<batchVars, idwInputs, pcI, binVars, rows, columns, configs,
                   starting_row, ending_row, id, received, recv_log, persisted,
                   idw_status>>
    /\ UNCHANGED flowVars

\* One iteration of `for row in starting_row..ending_row`, ending in
\* tx1.send((row, data)).
WorkerSend(w) ==
    /\ pcI \in {"dispatch", "collect"}
    /\ workers[w].state = "running"
    /\ workers[w].next < workers[w].ending_row
    /\ chan' = Append(chan, <<workers[w].next, ComputeRow(workers[w].next)>>)
    /\ workers' = [workers EXCEPT ![w].next = @ + 1]
    /\ UNCHANGED <<batchVars, idwInputs, pcI, binVars, gridVars, starting_row, ending_row, id,
                   received, recv_log, persisted, idw_status>>
    /\ UNCHANGED flowVars

\* A worker thread panics (or stops for good) with rows of its block unsent;
\* its clone of the sender is dropped.
WorkerPanic(w) ==
    /\ pcI \in {"dispatch", "collect"}
    /\ workers[w].state = "running"
    /\ workers[w].next < workers[w].ending_row
    /\ workers' = [workers EXCEPT ![w].state = "panicked"]
    /\ UNCHANGED <<batchVars, idwInputs, pcI, binVars, gridVars, starting_row, ending_row, id,
                   collectVars>>
    /\ UNCHANGED flowVars

(***************************************************************************)
(* The collector                                                           *)
(***************************************************************************)
\* `tx` is declared with the channel and lives to the end of the loop body
\* over the input files.
TxDroppedAfterDispatch == pcI \in {"bin", "dispatch"}

TxAlive == pcI # "done"

\* A thread that still runs holds its clone tx1.
SendersAlive ==
    TxAlive \/ \E w \in 1 .. Len(workers) :
                  workers[w].state = "running" /\ workers[w].next < workers[w].ending_row

\* output.set_row_data(data.0, data.1): the row the buffer is written to
TargetRowByArrival(msg) == received

TargetRow(msg) == msg[1]

\* One iteration of `for row in 0..rows`: rx.recv().unwrap(), set_row_data.
\* recv blocks while the channel is empty and a sender is alive, and returns
\* Err (unwrap panics) when it is empty and every sender is gone.
Recv ==
    /\ pcI = "collect"
    /\ received < rows
    /\ IF chan # << >>
       THEN /\ grid' = [grid EXCEPT ![TargetRow(Head(chan))] = Head(chan)[2]]
            /\ chan' = Tail(chan)
            /\ received' = received + 1
            /\ recv_log' = Append(recv_log, Head(chan)[1])
            /\ pcI' = IF received + 1 < rows THEN "collect" ELSE "write"
            /\ UNCHANGED idw_status
       ELSE /\ ~SendersAlive
            /\ pcI' = "panic"
            /\ idw_status' = "panic"
            /\ UNCHANGED <<grid, chan, received, recv_log>>
    /\ UNCHANGED <<batchVars, idwInputs, binVars, rows, columns, configs, dispatchVars,
                   persisted>>
    /\ UNCHANGED flowVars

\* output.write() after the collector loop, and the end of the body of
\* `for k in 0..inputs.len()`: the next file, or Ok(()) after the last.
Write ==
    /\ pcI = "write"
    /\ persisted' = grid
    /\ written' = written \cup {k}
    /\ IF k + 1 < Len(inputs)
       THEN /\ k' = k + 1
            /\ pcI' = "load"
            /\ UNCHANGED idw_status
       ELSE /\ pcI' = "done"
            /\ idw_status' = "Ok"
            /\ UNCHANGED k
    /\ UNCHANGED <<inputs, idwInputs, binVars, gridVars, dispatchVars, chan, received,
                   recv_log>>
    /\ UNCHANGED flowVars

WorkerSends == \E w \in 1 .. Len(workers) : WorkerSend(w)

WorkerPanics == \E w \in 1 .. Len(workers) : WorkerPanic(w)

NextIdw ==
    BinPoint \/ SetupGrid \/ Spawn \/ StartCollect \/ WorkerSends \/ WorkerPanics
        \/ Recv \/ Write

NextBatch ==
    LoadFile \/ BinPoint \/ SetupGrid \/ Spawn \/ StartCollect \/ WorkerSends
        \/ WorkerPanics \/ Recv \/ Write

NextDispatch == SetupGrid \/ Spawn \/ StartCollect

NextBin == BinPoint

(***************************************************************************)
(* The inputs of the IDW model.                                            *)
(***************************************************************************)
FlowIdle ==
    /\ destination = NoRaster /\ backlink = NoRaster
    /\ output = NoRaster /\ saved = NoRaster
    /\ pcF = "idle"
    /\ row = 0 /\ col = 0 /\ x = 0 /\ y = 0
    /\ flag = TRUE /\ moves = 0 /\ trail = << >>
    /\ status = "running"

IdwIdle ==
    /\ input = [header |-> [min_x |-> 0, max_x |-> 0, min_y |-> 0, max_y |-> 0],
                points |-> << >>]
    /\ interp_parameter = "elevation"
    /\ return_type = "all"
    /\ exclude_cls = {}
    /\ min_z = 0 - ZInfinity /\ max_z = ZInfinity
    /\ grid_res = Scale
    /\ weight = 1
    /\ search_radius = Scale
    /\ num_procs = 1
    /\ pcI = "idle"
    /\ inputs = << >> /\ k = 0 /\ written = {}
    /\ bin_i = 0 /\ frs = << >> /\ interp_vals = << >>
    /\ rows = 0 /\ columns = 0 /\ configs = NoConfigs /\ grid = << >>
    /\ starting_row = 0 /\ ending_row = 0 /\ id = 0 /\ workers = << >>
    /\ chan = << >> /\ received = 0 /\ recv_log = << >>
    /\ persisted = NotWritten
    /\ idw_status = "running"

\* The state of LidarIdwInterpolation::run once the input file is loaded.
IdwLoaded ==
    /\ pcI = "bin"
    /\ bin_i = 0 /\ frs = << >> /\ interp_vals = << >>
    /\ rows = 0 /\ columns = 0 /\ configs = NoConfigs /\ grid = << >>
    /\ starting_row = 0 /\ ending_row = 0 /\ id = 0 /\ workers = << >>
    /\ chan = << >> /\ received = 0 /\ recv_log = << >>
    /\ persisted = NotWritten
    /\ idw_status = "running"

\* A run on one input file (-i), which LasFile::new has read.
SingleFile ==
    /\ inputs = <<[readable |-> TRUE, las |-> input]>>
    /\ k = 0
    /\ written = {}

Header(r, c, res) ==
    [min_x |-> 0, max_x |-> c * res, min_y |-> 0, max_y |-> r * res]

Point(px, py, pz, int, cls, ang, usr, wh, late, early) ==
    [x |-> px, y |-> py, z |-> pz, intensity |-> int, classification |-> cls,
     scan_angle |-> ang, user_data |-> usr, withheld |-> wh,
     is_late_return |-> late, is_early_return |-> early]

\* A cloud with one point per grid row, at the centre of the row's first
\* cell, with elevation 10 + row: every row of the grid gets its own values.
RowCloud(r, res) ==
    [q \in 1 .. r |->
        Point(Scale \div 2, r * res - (q - 1) * res - Scale \div 2, 10 + (q - 1),
              q, 2, 0, 0, FALSE, TRUE, TRUE)]

InitIdw ==
    /\ FlowIdle
    /\ IdwLoaded
    /\ \E r \in 0 .. MaxIdwRows, c \in 1 .. MaxIdwCols :
          input = [header |-> Header(r, c, Scale), points |-> RowCloud(r, Scale)]
    /\ num_procs \in 1 .. MaxProcs
    /\ interp_parameter = "elevation"
    /\ return_type = "all"
    /\ exclude_cls = {}
    /\ min_z = 0 - ZInfinity /\ max_z = ZInfinity
    /\ grid_res = Scale
    /\ weight \in {1, 2}
    /\ search_radius = Scale
    /\ SingleFile

\* The inputs of the partition example and around them; no points.
DispatchRows == {0, 1, 2, 3, 4, 5, 6, 7, 100}
DispatchProcs == {1, 2, 3, 4, 8}

InitDispatch ==
    /\ FlowIdle
    /\ IdwLoaded
    /\ \E r \in DispatchRows :
          input = [header |-> Header(r, 1, Scale), points |-> << >>]
    /\ num_procs \in DispatchProcs
    /\ interp_parameter = "elevation"
    /\ return_type = "all"
    /\ exclude_cls = {}
    /\ min_z = 0 - ZInfinity /\ max_z = ZInfinity
    /\ grid_res = Scale
    /\ weight = 1
    /\ search_radius = Scale
    /\ SingleFile

\* The points the binning model draws its clouds from.
PointPool ==
    { Point(1, 1, 5, 40, 2, 3, 7, FALSE, TRUE, FALSE),
      Point(3, 1, 9, 50, 6, 4, 8, FALSE, FALSE, TRUE),
      Point(1, 3, 20, 60, 2, 5, 9, TRUE, TRUE, TRUE) }

Clouds == UNION {[1 .. n -> PointPool] : n \in 0 .. MaxPoints}

InterpParameters == {"elevation", "z", "intensity", "class", "scan angle", "user data"}

InitBin ==
    /\ FlowIdle
    /\ IdwLoaded
    /\ \E pts \in Clouds : input = [header |-> Header(2, 2, Scale), points |-> pts]
    /\ num_procs = 1
    /\ interp_parameter \in InterpParameters
    /\ return_type \in {"all", "last", "first"}
    /\ exclude_cls \in {{}, {6}}
    /\ min_z \in {0 - ZInfinity, 6} /\ max_z = ZInfinity
    /\ grid_res = Scale
    /\ weight = 1
    /\ search_radius = Scale
    /\ SingleFile

\* The points of the cell model, all on the line of the single row's cell
\* centres (x = 1, 3, 5 units): two coincident points on the first centre
\* with different elevations, and one on the third centre.
CellPool ==
    { Point(1, 1, 5, 40, 2, 3, 7, FALSE, TRUE, TRUE),
      Point(1, 1, 9, 50, 2, 4, 8, FALSE, TRUE, TRUE),
      Point(5, 1, 8, 60, 2, 5, 9, FALSE, TRUE, TRUE) }

CellClouds == UNION {[1 .. n -> CellPool] : n \in 0 .. MaxPoints}

\* A grid of one row and three columns, run by one thread.
InitCell ==
    /\ FlowIdle
    /\ IdwLoaded
    /\ \E pts \in CellClouds : input = [header |-> Header(1, 3, Scale), points |-> pts]
    /\ num_procs = 1
    /\ interp_parameter = "elevation"
    /\ return_type = "all"
    /\ exclude_cls = {}
    /\ min_z = 0 - ZInfinity /\ max_z = ZInfinity
    /\ grid_res = Scale
    /\ weight \in {1, 2}
    /\ search_radius \in {Scale, 2 * Scale}
    /\ SingleFile

\* The points of the cell-centre model for a grid of one row and two columns
\* of resolution res: one at the middle of each cell (elevations 5 and 6)
\* and one at half a map unit from each cell's north-west corner
\* (elevations 7 and 8); the two places are the same when res is 1.0.
CentrePool(res) ==
    { Point(c * res + res \div 2, res - res \div 2, 5 + c, 40, 2, 3, 7, FALSE, TRUE, TRUE) :
        c \in 0 .. 1 }
      \cup
    { Point(c * res + Scale \div 2, res - Scale \div 2, 7 + c, 40, 2, 3, 7, FALSE, TRUE, TRUE) :
        c \in 0 .. 1 }

CentreClouds(res) == UNION {[1 .. n -> CentrePool(res)] : n \in 0 .. MaxPoints}

\* Resolutions 1.0 and 2.0 with a search radius of 0.5, run by one thread.
InitCentre ==
    /\ FlowIdle
    /\ IdwLoaded
    /\ grid_res \in {Scale, 2 * Scale}
    /\ \E pts \in CentreClouds(grid_res) :
          input = [header |-> Header(1, 2, grid_res), points |-> pts]
    /\ num_procs = 1
    /\ interp_parameter = "elevation"
    /\ return_type = "all"
    /\ exclude_cls = {}
    /\ min_z = 0 - ZInfinity /\ max_z = ZInfinity
    /\ weight = 2
    /\ search_radius = Scale \div 2
    /\ SingleFile

\* The files of a batch: one that LasFile::new cannot read, and two it can,
\* of one and of two grid rows.
NoLas == [header |-> [min_x |-> 0, max_x |-> 0, min_y |-> 0, max_y |-> 0],
          points |-> << >>]

FilePool ==
    { [readable |-> FALSE, las |-> NoLas],
      [readable |-> TRUE,
       las |-> [header |-> Header(1, 1, Scale), points |-> RowCloud(1, Scale)]],
      [readable |-> TRUE,
       las |-> [header |-> Header(2, 1, Scale), points |-> RowCloud(2, Scale)]] }

Batches == UNION {[1 .. n -> FilePool] : n \in 1 .. MaxFiles}

\* The run at the head of the batch loop, before the first file is read.
InitBatch ==
    /\ FlowIdle
    /\ inputs \in Batches
    /\ k = 0
    /\ written = {}
    /\ pcI = "load"
    /\ input = NoLas
    /\ bin_i = 0 /\ frs = << >> /\ interp_vals = << >>
    /\ rows = 0 /\ columns = 0 /\ configs = NoConfigs /\ grid = << >>
    /\ starting_row = 0 /\ ending_row = 0 /\ id = 0 /\ workers = << >>
    /\ chan = << >> /\ received = 0 /\ recv_log = << >>
    /\ persisted = NotWritten
    /\ idw_status = "running"
    /\ num_procs \in {1, 2}
    /\ interp_parameter = "elevation"
    /\ return_type = "all"
    /\ exclude_cls = {}
    /\ min_z = 0 - ZInfinity /\ max_z = ZInfinity
    /\ grid_res = Scale
    /\ weight = 1
    /\ search_radius = Scale

\* The bounding boxes and resolutions of the grid model, in units of 0.5:
\* extents that are and are not multiples of the resolution, the box
\* (0, 10, 0, 10) with resolution 2.0 among them; no points.
GridOrigins == {0, 2}
GridExtents == {0, 3, 4, 10 * Scale}
GridResolutions == {Scale, 3, 2 * Scale}

InitGrid ==
    /\ FlowIdle
    /\ IdwLoaded
    /\ \E ox \in GridOrigins, oy \in GridOrigins, ex \in GridExtents, ey \in GridExtents :
          input = [header |-> [min_x |-> ox, max_x |-> ox + ex,
                               min_y |-> oy, max_y |-> oy + ey],
                   points |-> << >>]
    /\ num_procs = 1
    /\ interp_parameter = "elevation"
    /\ return_type = "all"
    /\ exclude_cls = {}
    /\ min_z = 0 - ZInfinity /\ max_z = ZInfinity
    /\ grid_res \in GridResolutions
    /\ weight = 1
    /\ search_radius = Scale
    /\ SingleFile

SpecIdw == InitIdw /\ [][NextIdw]_vars

SpecGrid == InitGrid /\ [][NextDispatch]_vars

SpecBatch == InitBatch /\ [][NextBatch]_vars

SpecCell == InitCell /\ [][NextIdw]_vars

SpecCentre == InitCentre /\ [][NextIdw]_vars

SpecDispatch == InitDispatch /\ [][NextDispatch]_vars

\* The main thread is never suspended for good: while a step of the dispatch
\* loop is possible, one is taken.
SpecDispatchLive == InitDispatch /\ [][NextDispatch]_vars /\ WF_vars(NextDispatch)

SpecBin == InitBin /\ [][NextBin]_vars

(***************************************************************************)
(* The inputs of the flow model.                                           *)
(***************************************************************************)
NodataA == 0 - 32768
NodataB == 0 - 9999

FlowShapes ==
    {s \in (1 .. MaxFlowRows) \X (1 .. MaxFlowCols) : s[1] * s[2] <= MaxFlowCells}

\* terminal (0), E, S, W, N, an out-of-table value, and nodata
BacklinkValues == {NodataA, 0, 2, 8, 32, 128, 200}
DestinationValues == {0, 1}

Rasters(shape, nd, values) ==
    {[rows |-> shape[1], columns |-> shape[2], nodata |-> nd, data |-> d] :
        d \in [Cells(shape[1], shape[2]) -> values]}

Uniform(shape, nd, v) ==
    [rows |-> shape[1], columns |-> shape[2], nodata |-> nd,
     data |-> [cell \in Cells(shape[1], shape[2]) |-> v]]

FlowStart ==
    /\ output = NoRaster
    /\ saved = NoRaster
    /\ pcF = "check"
    /\ row = 0 /\ col = 0 /\ x = 0 /\ y = 0
    /\ flag = TRUE
    /\ moves = 0
    /\ trail = << >>
    /\ status = "running"

InitFlow ==
    /\ FlowStart
    /\ IdwIdle
    /\ \E sd \in FlowShapes, sb \in FlowShapes, nd \in {NodataA, NodataB} :
          IF sd = sb
          THEN /\ destination \in Rasters(sd, nd, DestinationValues)
               /\ backlink \in Rasters(sb, NodataA, BacklinkValues)
          ELSE /\ destination = Uniform(sd, nd, 1)
               /\ backlink = Uniform(sb, NodataA, 2)

\* The values of the direction model: the eight direction codes, and 3 and
\* 100, which are inside the table but are no direction code.
StepCodes == {1, 2, 4, 8, 16, 32, 64, 128, 3, 100}

\* The direction model: a square grid whose backlink cells all hold one
\* value, with a single destination cell.
InitStep ==
    /\ FlowStart
    /\ IdwIdle
    /\ \E code \in StepCodes, at \in Cells(StepSide, StepSide) :
          /\ backlink = Uniform(<<StepSide, StepSide>>, NodataA, code)
          /\ destination =
                [rows |-> StepSide, columns |-> StepSide, nodata |-> NodataA,
                 data |-> [cell \in Cells(StepSide, StepSide) |->
                              IF cell = at THEN 1 ELSE 0]]

SpecFlow == InitFlow /\ [][NextFlow]_vars

SpecStep == InitStep /\ [][NextFlow]_vars

Init == InitIdw

Next == NextIdw

Spec == SpecIdw

(***************************************************************************)
(* The IDW claims.                                                         *)
(***************************************************************************)
Dispatching == pcI \in {"dispatch", "collect", "write", "done", "panic"}

\* The number of spawned blocks that hold row r.
BlocksWith(r) ==
    Cardinality({w \in 1 .. Len(workers) :
                    workers[w].starting_row <= r /\ r < workers[w].ending_row})

ExactCover == \A r \in 0 .. rows - 1 : BlocksWith(r) = 1

\* C1: for rows in {1, 7, 100} and W in {1, 3, 8} the blocks the dispatch
\* loop computes hold every row of 0..rows exactly once; W blocks and one
\* for the remainder are all the loop may need for that.
PartitionCompleteAsStated ==
    (/\ Dispatching
     /\ rows \in {1, 7, 100}
     /\ num_procs \in {1, 3, 8}
     /\ (pcI = "collect" \/ id > num_procs)) => ExactCover

BlockSize == rows \div num_procs

BlockRows(w) == workers[w].ending_row - workers[w].starting_row

Range(seq) == {seq[i] : i \in 1 .. Len(seq)}

\* C3: when the collector loop has finished it has received exactly `rows`
\* results, one for each row index and none twice, and row r of the output
\* grid holds the buffer computed for row r, whatever the arrival order.
CollectorComplete ==
    pcI \in {"write", "done"} =>
        /\ received = rows
        /\ Len(recv_log) = rows
        /\ Range(recv_log) = 0 .. rows - 1
        /\ \A r \in 0 .. rows - 1 : grid[r] = ComputeRow(r)

\* Row 1 arrived before row 0, and the two rows differ.
CollectorCompleteWitness ==
    /\ pcI = "done"
    /\ rows >= 2
    /\ recv_log[1] = 1 /\ recv_log[2] = 0
    /\ persisted[0][1] = RInt(10)
    /\ persisted[1][1] = RInt(11)

DiedEarly(w) == workers[w].state = "panicked"

\* C4: once a worker has panicked with rows of its block unsent, the
\* collector never completes: the run stays in the collector loop short of
\* `rows` results, reports neither an error nor a result, and writes nothing.
PanickedWorkerBlocksRun ==
    (\E w \in 1 .. Len(workers) : DiedEarly(w)) =>
        /\ pcI \in {"dispatch", "collect"}
        /\ received < rows
        /\ idw_status = "running"
        /\ persisted = NotWritten

\* The collector waits on the empty channel, every other worker is through,
\* and only the original sender is left.
PanickedWorkerWitness ==
    /\ pcI = "collect"
    /\ chan = << >>
    /\ \E w \in 1 .. Len(workers) : DiedEarly(w)
    /\ \A w \in 1 .. Len(workers) :
          DiedEarly(w) \/ workers[w].next = workers[w].ending_row
    /\ received > 0
    /\ ~ENABLED Recv

\* The point field an interpolation parameter names.
SelectedField(p) ==
    CASE interp_parameter = "elevation"  -> p.z
      [] interp_parameter = "intensity"  -> p.intensity
      [] interp_parameter = "class"      -> p.classification
      [] interp_parameter = "scan angle" -> p.scan_angle
      [] interp_parameter = "user data"  -> p.user_data

\* C10: for each of the five selectors, entry i of the attribute array is
\* the selected field of point i.
AttributeSelectionAsStated ==
    interp_parameter \in {"elevation", "intensity", "class", "scan angle", "user data"} =>
        \A i \in 1 .. Len(interp_vals) : interp_vals[i] = SelectedField(input.points[i])

(***************************************************************************)
(* Reference definitions for the flow claims, written from the DirectionCode*)
(* table and the walk's definition, independently of the actions above.    *)
(***************************************************************************)
DirectionCodes == {1, 2, 4, 8, 16, 32, 64, 128}

\* <<delta col, delta row>> of a direction code
Delta(code) ==
    CASE code = 1   -> <<1, -1>>
      [] code = 2   -> <<1, 0>>
      [] code = 4   -> <<1, 1>>
      [] code = 8   -> <<0, 1>>
      [] code = 16  -> <<-1, 1>>
      [] code = 32  -> <<-1, 0>>
      [] code = 64  -> <<-1, -1>>
      [] code = 128 -> <<0, -1>>

FlowCells == Cells(destination.rows, destination.columns)
NCells == destination.rows * destination.columns

InFlowGrid(cell) == cell \in FlowCells

SameShape ==
    destination.rows = backlink.rows /\ destination.columns = backlink.columns

BackAt(cell) ==
    IF cell \in DOMAIN backlink.data THEN backlink.data[cell] ELSE backlink.nodata

\* A cell <<r, c>> of the grid has an outgoing edge when its backlink value
\* is a direction code.
HasEdge(cell) == InFlowGrid(cell) /\ BackAt(cell) \in DirectionCodes

Target(cell) ==
    <<cell[1] + Delta(BackAt(cell))[2], cell[2] + Delta(BackAt(cell))[1]>>

\* The chain from `cell` makes n moves without leaving the grid.
RECURSIVE Runs(_, _)
Runs(cell, n) ==
    IF n = 0 THEN InFlowGrid(cell)
    ELSE HasEdge(cell) /\ Runs(Target(cell), n - 1)

\* n + 1 cells of an n-cell grid repeat one: the chain is in a cycle.
EntersCycle(cell) == Runs(cell, NCells)

HasCycle == \E cell \in FlowCells : EntersCycle(cell)

\* The cells of the grid on the chain from `cell`.
RECURSIVE Path(_, _)
Path(cell, fuel) ==
    IF ~InFlowGrid(cell) THEN {}
    ELSE {cell} \cup (IF fuel = 0 \/ ~HasEdge(cell) THEN {} ELSE Path(Target(cell), fuel - 1))

Origins ==
    {cell \in FlowCells : destination.data[cell] > 0 /\ BackAt(cell) # backlink.nodata}

WalkCount(cell) == Cardinality({o \in Origins : cell \in Path(o, NCells)})

ScanOver == pcF \in {"save", "done"}

Accumulation == [cell \in FlowCells |-> output.data[cell]]

\* C5: after the scan over a backlink grid without cycles, every cell of the
\* accumulation grid holds the number of walks that passed through it, and a
\* cell no walk passed through holds nodata.
FlowCountsExact ==
    (ScanOver /\ SameShape /\ ~HasCycle) =>
        \A cell \in FlowCells :
            output.data[cell] =
                IF WalkCount(cell) = 0 THEN output.nodata ELSE WalkCount(cell)

\* Two chains merge in a cell and another cell is on no chain.
FlowCountsWitness ==
    /\ pcF = "done"
    /\ SameShape
    /\ ~HasCycle
    /\ \E cell \in FlowCells : WalkCount(cell) = 2 /\ output.data[cell] = 2
    /\ \E cell \in FlowCells : WalkCount(cell) = 0 /\ output.data[cell] = output.nodata

\* The 1x3 grid of the straight-chain example: E at column 0, E at column 1,
\* a terminal value at column 2, and the only destination cell at `at`.
StraightChain(at) ==
    /\ destination.rows = 1 /\ destination.columns = 3
    /\ backlink.rows = 1 /\ backlink.columns = 3
    /\ backlink.data[<<0, 0>>] = 2
    /\ backlink.data[<<0, 1>>] = 2
    /\ backlink.data[<<0, 2>>] \in {0, backlink.nodata}
    /\ \A c \in 0 .. 2 : destination.data[<<0, c>>] > 0 <=> c = at

AllOnes == [cell \in Cells(1, 3) |-> 1]

\* C6 as stated: with the destination at column 2 the accumulation of the
\* straight chain is [1, 1, 1] after a walk over columns 0, 1, 2.
StraightChainAsStated ==
    (StraightChain(2) /\ pcF = "done") =>
        (Accumulation = AllOnes /\ trail = <<<<0, 0>>, <<0, 1>>, <<0, 2>>>>)

\* C6 amended: with the destination at column 0 the walk starts at column 0,
\* visits columns 0, 1, 2 in that order, and the accumulation is [1, 1, 1].
StraightChainFromOrigin ==
    (StraightChain(0) /\ pcF = "done") =>
        (Accumulation = AllOnes /\ trail = <<<<0, 0>>, <<0, 1>>, <<0, 2>>>>)

StraightChainWitness ==
    StraightChain(0) /\ pcF = "done" /\ saved.data = AllOnes

\* C7: on a backlink grid without cycles no walk makes more than
\* rows * columns moves.
FlowWalkBounded == moves > NCells => (SameShape /\ HasCycle)

\* A walk over every cell of an acyclic grid that then leaves the grid.
FlowWalkBoundedWitness ==
    /\ SameShape
    /\ ~HasCycle
    /\ pcF = "done"
    /\ NCells >= 3
    /\ moves = NCells

RowMajor(r, c) == r * destination.columns + c

\* C8 as stated: a backlink grid that contains a direction cycle never
\* reaches the save step.
CycleNeverSavesAsStated == (SameShape /\ HasCycle) => ~ScanOver

\* C8 amended: when the chain of a cell that starts a walk enters a direction
\* cycle, the scan never gets past that cell: the walk never sets its stop
\* flag and the save step is never reached.
CycleWalkNeverStops ==
    \A o \in FlowCells :
        (\/ ScanOver
         \/ RowMajor(row, col) > RowMajor(o[1], o[2])
         \/ (<<row, col>> = o /\ pcF = "walk" /\ flag)) =>
            ~(SameShape /\ o \in Origins /\ EntersCycle(o))

\* A walk in a cycle has made more moves than the grid has cells.
CycleWalkWitness ==
    /\ pcF = "walk"
    /\ SameShape
    /\ <<row, col>> \in Origins
    /\ EntersCycle(<<row, col>>)
    /\ moves > NCells

\* C9: when the destination and backlink grids differ in rows or in columns
\* the run ends with InvalidInput: no output grid is allocated, no cell is
\* visited and nothing is saved.
ShapeMismatchAborts ==
    (destination.rows # backlink.rows \/ destination.columns # backlink.columns) =>
        /\ pcF \in {"check", "error"}
        /\ output = NoRaster
        /\ saved = NoRaster
        /\ trail = << >>
        /\ row = 0 /\ col = 0
        /\ (pcF = "error" <=> status = "InvalidInput")

\* The grids differ in rows only.
ShapeMismatchWitness ==
    /\ destination.rows # backlink.rows
    /\ destination.columns = backlink.columns
    /\ pcF = "error"
    /\ status = "InvalidInput"

(***************************************************************************)
(* The binning claims.                                                     *)
(***************************************************************************)
BinningDone == pcI = "bin" /\ bin_i = n_points

\* The ordinals the spatial index holds.
IndexedIds == {frs[q].id : q \in 1 .. Len(frs)}

\* The inclusion filter as the contract words it.
PassesFilter(p) ==
    /\ p.withheld = FALSE
    /\ \/ return_type = "all"
       \/ (return_type = "last" /\ p.is_late_return)
       \/ (return_type = "first" /\ p.is_early_return)
    /\ p.classification \notin exclude_cls
    /\ min_z <= p.z /\ p.z <= max_z

\* The centres of the cells of the grid the header spans.
CellCentres ==
    {<<CellX(c), CellY(r)>> : r \in 0 .. GridRows - 1, c \in 0 .. GridColumns - 1}

\* The ordinals a query at `centre` returns.
Returned(centre) ==
    {Search(centre[1], centre[2])[j][1] : j \in 1 .. Len(Search(centre[1], centre[2]))}

InRadius(p, centre) ==
    (p.x - centre[1]) * (p.x - centre[1]) + (p.y - centre[2]) * (p.y - centre[2])
        <= search_radius * search_radius

\* C11: after binning the spatial index holds ordinal i exactly when point i
\* passes the inclusion filter (not withheld, return mode, class not
\* excluded, min_z <= z <= max_z); so a query returns no point of an excluded
\* class, and where one filter-passing point lies in a cell's radius that
\* point's attribute is the cell's value, however near an excluded point is.
FilterExact ==
    BinningDone =>
        /\ \A i \in 0 .. n_points - 1 :
              i \in IndexedIds <=> PassesFilter(input.points[i + 1])
        /\ \A centre \in CellCentres :
              /\ \A i \in Returned(centre) :
                    input.points[i + 1].classification \notin exclude_cls
              /\ \A i \in 0 .. n_points - 1 :
                    ({q \in 0 .. n_points - 1 :
                         PassesFilter(input.points[q + 1])
                             /\ InRadius(input.points[q + 1], centre)} = {i})
                    => CellValue(Search(centre[1], centre[2]))
                           = RInt(Attribute(input.points[i + 1]))

\* A point of an excluded class sits on a cell centre, a point that passes
\* the filter lies farther off within the radius, and the cell's value is the
\* farther point's elevation.
FilterExactWitness ==
    /\ BinningDone
    /\ interp_parameter = "elevation"
    /\ \E centre \in CellCentres, i, q \in 0 .. n_points - 1 :
          /\ input.points[i + 1].classification \in exclude_cls
          /\ input.points[i + 1].withheld = FALSE
          /\ input.points[i + 1].x = centre[1] /\ input.points[i + 1].y = centre[2]
          /\ PassesFilter(input.points[q + 1])
          /\ input.points[q + 1].x # centre[1]
          /\ InRadius(input.points[q + 1], centre)
          /\ CellValue(Search(centre[1], centre[2])) = RInt(input.points[q + 1].z)
          /\ input.points[q + 1].z # input.points[i + 1].z

\* The point fields an attribute array can be drawn from.
AttributeFields == {"z", "intensity", "classification", "scan_angle", "user_data"}

\* The field of the selectors the match names; `class`, which it does not
\* name, is settled with C10.
NamedField ==
    CASE interp_parameter \in {"elevation", "z"} -> "z"
      [] interp_parameter = "intensity"          -> "intensity"
      [] interp_parameter = "scan angle"         -> "scan_angle"
      [] interp_parameter = "user data"          -> "user_data"
      [] OTHER                                   -> "none"

GridDone == pcI \in {"write", "done"}

\* The result list of the query for cell (r, c).
Ret(r, c) == Search(CellX(c), CellY(r))

GridCells == {<<r, c>> : r \in 0 .. rows - 1, c \in 0 .. columns - 1}

\* The value the collector placed in cell (r, c).
GridValue(cell) == grid[cell[1]][cell[2] + 1]

\* The positions of the result list with distance 0.
ZeroAt(cell) ==
    {j \in 1 .. Len(Ret(cell[1], cell[2])) : Ret(cell[1], cell[2])[j][2] = 0}

AttrOf(cell, j) == interp_vals[Ret(cell[1], cell[2])[j][1] + 1]

\* C13 as stated: the value of a cell is the attribute of any returned point
\* at distance 0.
ExactMatchAsStated ==
    GridDone =>
        \A cell \in GridCells : \A j \in ZeroAt(cell) :
            GridValue(cell) = RInt(AttrOf(cell, j))

FirstZero(cell) == CHOOSE j \in ZeroAt(cell) : \A q \in ZeroAt(cell) : j <= q

\* C13 amended: when the result list of a cell holds a point at distance 0,
\* the cell's value is the attribute of the first such point of the list,
\* whatever was returned before it; no weighted average overwrites it.
ExactMatchFirst ==
    GridDone =>
        \A cell \in GridCells :
            ZeroAt(cell) # {} => GridValue(cell) = RInt(AttrOf(cell, FirstZero(cell)))

\* The point on the cell's centre is the second of the result list, after a
\* point at a positive distance with another elevation.
ExactMatchWitness ==
    /\ pcI = "done"
    /\ \E cell \in GridCells :
          /\ ZeroAt(cell) = {2}
          /\ Ret(cell[1], cell[2])[1][2] > 0
          /\ AttrOf(cell, 1) # AttrOf(cell, 2)
          /\ persisted[cell[1]][cell[2] + 1] = RInt(AttrOf(cell, 2))

\* C14: in the final grid a cell whose query returns no point holds nodata,
\* a cell whose query returns at least one point does not, and the run that
\* wrote the grid ended without an error.
EmptyNeighbourhoodNodata ==
    GridDone =>
        /\ \A cell \in GridCells :
              IF Len(Ret(cell[1], cell[2])) = 0
              THEN GridValue(cell) = NodataCell
              ELSE GridValue(cell) # NodataCell
        /\ idw_status = (IF pcI = "done" THEN "Ok" ELSE "running")
        /\ pcI = "done" => persisted = grid

\* One cell of the written grid has no point in its radius and its
\* neighbour has exactly one.
EmptyNeighbourhoodWitness ==
    /\ pcI = "done"
    /\ idw_status = "Ok"
    /\ \E c1, c2 \in GridCells :
          /\ Len(Ret(c1[1], c1[2])) = 0
          /\ persisted[c1[1]][c1[2] + 1] = NodataCell
          /\ Len(Ret(c2[1], c2[2])) = 1
          /\ persisted[c2[1]][c2[2] + 1] = RInt(AttrOf(c2, 1))

(***************************************************************************)
(* The direction claim.                                                    *)
(***************************************************************************)
\* C15: a step of the walk from a cell that holds one of the eight direction
\* codes moves (col, row) by exactly the table's offset for that code:
\* 1 (+1,-1), 2 (+1,0), 4 (+1,+1), 8 (0,+1), 16 (-1,+1), 32 (-1,0),
\* 64 (-1,-1), 128 (0,-1).
DirectionDecoded ==
    [][(pcF = "walk" /\ ~flag /\ InFlowGrid(<<y, x>>)
            /\ BackAt(<<y, x>>) \in DirectionCodes)
        => /\ x' = x + Delta(BackAt(<<y, x>>))[1]
           /\ y' = y + Delta(BackAt(<<y, x>>))[2]
           /\ pcF' = "walk"]_vars

\* A walk from the centre cell over code 64 has stepped to the cell one
\* column to the left and one row up.
DirectionDecodedWitness ==
    /\ pcF = "done"
    /\ Len(trail) >= 2
    /\ trail[1] = <<1, 1>>
    /\ backlink.data[<<1, 1>>] = 64
    /\ trail[2] = <<0, 0>>
    /\ saved.data[<<0, 0>>] = 1

(***************************************************************************)
(* The batch claim.                                                        *)
(***************************************************************************)
Unreadable(j) == ~inputs[j + 1].readable

\* The run panicked on reading file k.
LoadFailed == pcI = "panic" /\ k < Len(inputs) /\ Unreadable(k)

\* C16: when loading input file k fails the run aborts there: the batch loop
\* never gets past k, no worker is ever spawned for file k, no output is
\* written for file k or a later file, and the outputs of the files before k
\* have been written.
LoadFailureAborts ==
    /\ \A j \in 0 .. Len(inputs) - 1 :
          Unreadable(j) =>
              /\ k <= j
              /\ \A f \in j .. Len(inputs) - 1 : f \notin written
              /\ \A w \in 1 .. Len(workers) : workers[w].file < j
              /\ k = j => pcI \in {"load", "panic"}
    /\ LoadFailed =>
          /\ written = 0 .. k - 1
          /\ idw_status = "panic"

\* The second of three files is unreadable: the first file's output is
\* written, its workers are the only ones spawned, and the third file, which
\* is readable, is never reached.
LoadFailureWitness ==
    /\ LoadFailed
    /\ Len(inputs) = 3
    /\ k = 1
    /\ inputs[3].readable
    /\ written = {0}
    /\ workers # << >>
    /\ persisted # NotWritten

(***************************************************************************)
(* The grid shape claim.                                                   *)
(***************************************************************************)
\* n is the ceiling of a / b: the least whole number of b's that covers a.
IsCeiling(n, a, b) == n * b >= a /\ (n - 1) * b < a

\* C17: the output grid has columns = ceil((max_x - min_x) / res) and
\* rows = ceil((max_y - min_y) / res), north and west are the box's max_y and
\* min_x, south = north - rows * res and east = west + columns * res; for the
\* box (0, 10, 0, 10) and resolution 2 the grid has 5 rows and 5 columns.
GridShape ==
    Dispatching =>
        /\ IsCeiling(rows, input.header.max_y - input.header.min_y, grid_res)
        /\ IsCeiling(columns, input.header.max_x - input.header.min_x, grid_res)
        /\ configs.rows = rows /\ configs.columns = columns
        /\ configs.north = input.header.max_y
        /\ configs.west = input.header.min_x
        /\ configs.south = configs.north - rows * grid_res
        /\ configs.east = configs.west + columns * grid_res
        /\ DOMAIN grid = 0 .. rows - 1
        /\ (/\ input.header = [min_x |-> 0, max_x |-> 10 * Scale,
                               min_y |-> 0, max_y |-> 10 * Scale]
            /\ grid_res = 2 * Scale) => (rows = 5 /\ columns = 5)

\* The grid of the box (0, 10, 0, 10) at resolution 2.
GridShapeWitness ==
    /\ Dispatching
    /\ input.header = [min_x |-> 0, max_x |-> 10 * Scale, min_y |-> 0, max_y |-> 10 * Scale]
    /\ grid_res = 2 * Scale
    /\ rows = 5 /\ columns = 5
    /\ configs.south = 0 /\ configs.east = 10 * Scale

\* The result list of the cell holds exactly two points, at the same positive
\* distance.
TwoEquidistant(cell) ==
    /\ Len(Ret(cell[1], cell[2])) = 2
    /\ Ret(cell[1], cell[2])[1][2] > 0
    /\ Ret(cell[1], cell[2])[1][2] = Ret(cell[1], cell[2])[2][2]

\* C18: with exponent 1, a cell whose query returns exactly two points at the
\* same positive distance, with attribute values a and b, has the value
\* (a + b) / 2.
SymmetricMean ==
    (GridDone /\ weight = 1) =>
        \A cell \in GridCells :
            TwoEquidistant(cell) =>
                GridValue(cell) = Rat(AttrOf(cell, 1) + AttrOf(cell, 2), 2)

\* The middle cell lies halfway between a point of elevation 5 and a point of
\* elevation 8 and holds 13/2.
SymmetricMeanWitness ==
    /\ pcI = "done"
    /\ weight = 1
    /\ \E cell \in GridCells :
          /\ TwoEquidistant(cell)
          /\ AttrOf(cell, 1) = 5 /\ AttrOf(cell, 2) = 8
          /\ persisted[cell[1]][cell[2] + 1] = <<13, 2>>

DispatchLoopStuck ==
    (Dispatching /\ rows > 0 /\ rows < num_procs) =>
        /\ pcI = "dispatch"
        /\ row_block_size = 0
        /\ ending_row = 0
        /\ ending_row < rows
        /\ \A w \in 1 .. Len(workers) : BlockRows(w) = 0

\* The loop does end when the block size rows / W is not 0 or there is no
\* row at all.
DispatchTerminatesNonEmptyBlocks ==
    (pcI = "dispatch" /\ (rows = 0 \/ rows >= num_procs))
        ~> (pcI \in {"collect", "write"})

(***************************************************************************)
(* The ownership claim.                                                    *)
(***************************************************************************)
\* A step of a spawned thread: a worker's record changes (the dispatch loop
\* only appends records).
WorkerStep ==
    /\ Len(workers') = Len(workers)
    /\ workers' # workers

\* A step that changes one row of the grid, and only that row, to `data`.
WritesRow(r, data) ==
    /\ r \in DOMAIN grid
    /\ grid' = [grid EXCEPT ![r] = data]

\* C20: no step of a worker touches the output grid or what was written: a
\* worker's step at most appends one (row, buffer) message of a row of its own
\* block to the channel; every change of the grid is a step of the main
\* thread, and in the collector loop it is the write of the received buffer
\* into the row the message names.
WorkersNeverWriteGrid ==
    [][/\ WorkerStep =>
            /\ grid' = grid
            /\ persisted' = persisted
            /\ chan' = chan
               \/ \E w \in 1 .. Len(workers) :
                     /\ workers[w].starting_row <= workers[w].next
                     /\ workers[w].next < workers[w].ending_row
                     /\ chan' = Append(chan, <<workers[w].next,
                                                ComputeRow(workers[w].next)>>)
                     /\ workers' = [workers EXCEPT ![w].next = @ + 1]
       /\ grid' # grid =>
            /\ ~WorkerStep
            /\ pcI \in {"load", "bin", "collect"}
            /\ pcI = "collect" =>
                  /\ chan # << >>
                  /\ WritesRow(Head(chan)[1], Head(chan)[2])
                  /\ chan' = Tail(chan)]_vars

\* Two workers are at work while the collector has placed one row: the
\* second worker's buffer waits in the channel and its row of the grid is
\* still untouched.
WorkersNeverWriteGridWitness ==
    /\ pcI = "collect"
    /\ Len(workers) >= 2
    /\ received = 1
    /\ recv_log = <<0>>
    /\ grid[0] = ComputeRow(0)
    /\ Len(chan) = 1
    /\ chan[1][1] = workers[2].starting_row
    /\ grid[chan[1][1]] # chan[1][2]
    /\ \E w \in 1 .. Len(workers) :
          workers[w].state = "running" /\ workers[w].next < workers[w].ending_row

(***************************************************************************)
(* The phases of an IDW run.                                               *)
(***************************************************************************)
\* C21: binning of all points is finished before the first worker is
\* spawned, and once the run has left the binning loop no step, of a worker
\* or of the collector, changes the spatial index or the attribute array.
BinningBeforeWorkers ==
    [][/\ Len(workers') > Len(workers) =>
            /\ bin_i = n_points
            /\ Len(interp_vals) = n_points
            /\ pcI \notin {"bin", "load"}
       /\ pcI \notin {"bin", "load"} =>
            /\ frs' = frs
            /\ interp_vals' = interp_vals
            /\ bin_i' = bin_i]_vars

\* Two points are indexed, workers are at work and the collector has taken
\* a row.
BinningBeforeWorkersWitness ==
    /\ pcI = "collect"
    /\ n_points >= 2
    /\ bin_i = n_points
    /\ Len(frs) = n_points
    /\ Len(interp_vals) = n_points
    /\ Len(workers) >= 2
    /\ received >= 1
    /\ chan # << >>

\* Every worker has sent all the rows of its block.
AllRowsSent ==
    \A w \in 1 .. Len(workers) : workers[w].next = workers[w].ending_row

\* C22: the output grid of a file is written at most once, and only when the
\* collector has received all `rows` row results of that file: no row is
\* outstanding in a worker or in the channel, and what is written is the
\* grid with every row placed.
WrittenOnceWhenComplete ==
    [][(written' # written \/ persisted' # persisted) =>
            /\ pcI = "write"
            /\ k \notin written
            /\ written' = written \cup {k}
            /\ received = rows
            /\ Range(recv_log) = 0 .. rows - 1
            /\ chan = << >>
            /\ AllRowsSent
            /\ persisted' = grid
            /\ \A r \in 0 .. rows - 1 : grid[r] = ComputeRow(r)]_vars

\* Two files of a batch have been written, the second with two rows.
WrittenOnceWitness ==
    /\ pcI = "done"
    /\ Len(inputs) = 2
    /\ written = {0, 1}
    /\ rows = 2
    /\ received = 2
    /\ persisted = grid

(***************************************************************************)
(* The flow walk, step by step.                                            *)
(***************************************************************************)
\* The value a visit leaves in a cell that held v (counts saturate at
\* FlowCap in the model).
Visited(v) == IF v = output.nodata THEN 1 ELSE Min(v + 1, FlowCap)

\* The step changes the accumulation grid in `cell` only, by one visit.
OnlyCellVisited(cell) ==
    /\ output'.data[cell] = Visited(output.data[cell])
    /\ \A other \in FlowCells \ {cell} : output'.data[other] = output.data[other]

\* C23: the scan goes over the cells in row-major order and starts a walk at
\* a cell exactly when destination > 0 and backlink # nodata there, the walk
\* beginning at that cell; a destination cell whose backlink is nodata starts
\* none, and a walk from a cell whose backlink is a non-nodata value <= 0 is
\* over after one visit, which adds 1 to that cell only.
WalkStartsExact ==
    [][/\ pcF = "scan" =>
            IF <<row, col>> \in Origins
            THEN /\ pcF' = "walk"
                 /\ x' = col /\ y' = row
                 /\ row' = row /\ col' = col
                 /\ output' = output
            ELSE /\ pcF' \in {"scan", "save"}
                 /\ RowMajor(row', col') = RowMajor(row, col) + 1
                 /\ pcF' = "save" <=> RowMajor(row', col') = NCells
                 /\ output' = output
       /\ (pcF = "walk" /\ pcF' \in {"scan", "save"}) =>
            /\ RowMajor(row', col') = RowMajor(row, col) + 1
            /\ pcF' = "save" <=> RowMajor(row', col') = NCells
       /\ (pcF = "walk" /\ moves = 0 /\ <<y, x>> = <<row, col>>
               /\ BackAt(<<row, col>>) # backlink.nodata
               /\ BackAt(<<row, col>>) <= 0) =>
            /\ pcF' \in {"scan", "save"}
            /\ trail' = << <<row, col>> >>
            /\ OnlyCellVisited(<<row, col>>)]_vars

\* Of two destination cells, the one whose backlink is 0 holds 1 after the
\* run and the one whose backlink is nodata started no walk: every other
\* cell is nodata.
WalkStartsWitness ==
    /\ pcF = "done"
    /\ SameShape
    /\ \E a, b \in FlowCells :
          /\ a # b
          /\ \A cell \in FlowCells : destination.data[cell] > 0 <=> cell \in {a, b}
          /\ backlink.data[a] = 0
          /\ backlink.data[b] = backlink.nodata
          /\ saved.data[a] = 1
          /\ \A cell \in FlowCells \ {a} : saved.data[cell] = saved.nodata

\* C24 as stated: at every step of every walk the position (y, x) lies inside
\* the grid: 0 <= y < rows and 0 <= x < columns.
WalkInsideGridAsStated ==
    (pcF = "walk" /\ ~flag) =>
        (0 <= y /\ y < destination.rows /\ 0 <= x /\ x < destination.columns)

\* C25: a visit changes one cell of the accumulation grid only: a cell that
\* still holds the output's nodata value (inherited from the destination
\* grid) becomes exactly 1 and a cell that holds the count v becomes v + 1,
\* also when the destination's nodata value differs from the backlink's
\* nodata value, which is the one the walk compares the cell against; the
\* cells hold nothing but nodata and counts from 1 upwards.
VisitCounts ==
    [][(pcF = "walk" /\ ~flag /\ <<y, x>> \in FlowCells) =>
          /\ output.nodata = destination.nodata
          /\ \A cell \in FlowCells :
                output.data[cell] = output.nodata \/ output.data[cell] \in 1 .. FlowCap
          /\ OnlyCellVisited(<<y, x>>)]_vars

\* A finished run on grids whose nodata values differ, with one cell visited
\* once and another visited twice.
VisitCountsWitness ==
    /\ pcF = "done"
    /\ SameShape
    /\ destination.nodata # backlink.nodata
    /\ \E a, b \in FlowCells : saved.data[a] = 1 /\ saved.data[b] = 2

(***************************************************************************)
(* The query coordinate of a cell.                                         *)
(***************************************************************************)
\* x = west + col*res + res/2 and y = north - row*res - res/2
StatedX(c) == west + c * grid_res + grid_res \div 2
StatedY(r) == north - r * grid_res - grid_res \div 2

\* C26 as stated: for every resolution, the cell (row, col) is interpolated
\* at x = west + col*res + res/2, y = north - row*res - res/2: the finished
\* grid holds in every cell the value interpolated from the points found
\* around that coordinate.
CellCentreAsStated ==
    GridDone =>
        \A cell \in GridCells :
            GridValue(cell) = CellValue(Search(StatedX(cell[2]), StatedY(cell[1])))

(***************************************************************************)
(* Backlink values that are no direction code.                             *)
(***************************************************************************)
NonCodes == (1 .. PntrLen - 1) \ DirectionCodes

\* C27: a step of the walk from a cell whose backlink value is between 1 and
\* 128 and is none of the eight direction codes is not rejected: the walk
\* goes on, one column to the right and one row up, as for code 1 (NE).
NonCodeDecodedAsNE ==
    [][(pcF = "walk" /\ ~flag /\ InFlowGrid(<<y, x>>)
            /\ BackAt(<<y, x>>) \in NonCodes)
        => /\ x' = x + 1
           /\ y' = y - 1
           /\ x' = x + Delta(1)[1]
           /\ y' = y + Delta(1)[2]
           /\ pcF' = "walk"
           /\ status' = status]_vars

\* A walk from the centre cell over the value 3 has stepped to the top right
\* cell and the run has finished normally.
NonCodeDecodedWitness ==
    /\ pcF = "done"
    /\ status = "Ok"
    /\ Len(trail) >= 2
    /\ trail[1] = <<1, 1>>
    /\ backlink.data[<<1, 1>>] = 3
    /\ trail[2] = <<0, 2>>
    /\ saved.data[<<0, 2>>] = 1

(***************************************************************************)
(* The input grids.                                                        *)
(***************************************************************************)
\* C28: no step of a run changes the destination grid or the backlink grid:
\* every cell of both, and their shape and nodata value, are as loaded; the
\* accumulation grid, and the file written from it, is all a run changes
\* among the grids.
InputsReadOnly ==
    [][/\ destination' = destination
       /\ backlink' = backlink
       /\ saved' # saved => saved' = output]_vars

\* A finished run with two destination cells whose walks met: the grid
\* written holds a count of 2, so walks have read both input grids.
InputsReadOnlyWitness ==
    /\ pcF = "done"
    /\ status = "Ok"
    /\ SameShape
    /\ Cardinality({cell \in FlowCells : destination.data[cell] > 0}) = 2
    /\ \E cell \in FlowCells : saved.data[cell] = 2 /\ backlink.data[cell] = 0

====
